---- MODULE Spec2Model ----
(***************************************************************************)
(* A model of the Hubitat plugin: the webhook handler, the event queue,    *)
(* the condition index, the dispatch loop (HubitatPlugin.run) and the      *)
(* three condition classes of utility.py.                                  *)
(*                                                                         *)
(* Python values are records [t, n, s]: t is the Python type, n the number *)
(* (floats are kept in tenths), s the characters of a str.  Strings that   *)
(* the code parses or lower-cases are sequences of one-character strings.  *)
(***************************************************************************)
EXTENDS Integers, Sequences, FiniteSets, TLC

(***************************************************************************)
(* Bounds of the model.                                                    *)
(***************************************************************************)
\* number of calls of the webhook
MaxCalls == 2
\* number of matching events one condition object observes (SpecCond)
MaxObserved == 2
MaxRequests == 2
MaxDevices == 2

----------------------------------------------------------------------------
(***************************************************************************)
(* Python values.                                                          *)
(***************************************************************************)
None == [t |-> "none", n |-> 0, s |-> <<>>]
PyBool(b) == [t |-> "bool", n |-> IF b THEN 1 ELSE 0, s |-> <<>>]
PyInt(i) == [t |-> "int", n |-> i, s |-> <<>>]
\* a float, given in tenths: PyFloat(55) is 5.5
PyFloat(tenths) == [t |-> "float", n |-> tenths, s |-> <<>>]
PyStr(chars) == [t |-> "str", n |-> 0, s |-> chars]
\* a class object such as int, the value of type(5)
PyClass(chars) == [t |-> "type", n |-> 0, s |-> chars]
\* the outcome of an operation that raised
Raised(exc) == [t |-> exc, n |-> 0, s |-> <<>>]

IsRaised(v) == v.t \in {"ValueError", "TypeError", "ValidationError", "Exception"}
IsNumber(v) == v.t \in {"bool", "int", "float"}
\* the numeric value in tenths, so that 5 == 5.0 and True == 1
Tenths(v) == IF v.t = "float" THEN v.n ELSE 10 * v.n

(***************************************************************************)
(* Characters: the part of ASCII the model's strings use, in ASCII order.  *)
(***************************************************************************)
Ascii ==
  <<" ", "+", "-", ".", "0", "1", "2", "3", "4", "5", "6", "7", "8", "9",
    "A", "B", "C", "D", "E", "F", "G", "H", "I", "J", "K", "L", "M", "N",
    "O", "P", "Q", "R", "S", "T", "U", "V", "W", "X", "Y", "Z", "_",
    "a", "b", "c", "d", "e", "f", "g", "h", "i", "j", "k", "l", "m", "n",
    "o", "p", "q", "r", "s", "t", "u", "v", "w", "x", "y", "z">>
Ord(c) == CHOOSE i \in 1..Len(Ascii) : Ascii[i] = c
Digits == <<"0", "1", "2", "3", "4", "5", "6", "7", "8", "9">>
IsDigit(c) == \E i \in 1..10 : Digits[i] = c
DigitValue(c) == (CHOOSE i \in 1..10 : Digits[i] = c) - 1
IsUpper(c) == Ord("A") <= Ord(c) /\ Ord(c) <= Ord("Z")
\* str.lower() on one character: 'A'..'Z' move to 'a'..'z'
LowerChar(c) == IF IsUpper(c) THEN Ascii[Ord(c) + (Ord("a") - Ord("A"))] ELSE c
\* str.lower()
Lower(chars) == [i \in 1..Len(chars) |-> LowerChar(chars[i])]

\* str.strip() of blanks, as int() and float() do before parsing
RECURSIVE LStrip(_)
LStrip(chars) ==
  IF chars # <<>> /\ Head(chars) = " " THEN LStrip(Tail(chars)) ELSE chars
RECURSIVE RStrip(_)
RStrip(chars) ==
  IF chars # <<>> /\ chars[Len(chars)] = " "
  THEN RStrip(SubSeq(chars, 1, Len(chars) - 1))
  ELSE chars
Strip(chars) == RStrip(LStrip(chars))

\* the digits of a literal: digits, single underscores allowed between them
IsDigitString(chars) ==
  /\ chars # <<>>
  /\ IsDigit(chars[1]) /\ IsDigit(chars[Len(chars)])
  /\ \A i \in 1..Len(chars) : IsDigit(chars[i]) \/ chars[i] = "_"
  /\ \A i \in 1..(Len(chars) - 1) : ~(chars[i] = "_" /\ chars[i + 1] = "_")
RECURSIVE DigitsValue(_, _)
DigitsValue(chars, acc) ==
  IF chars = <<>> THEN acc
  ELSE IF Head(chars) = "_" THEN DigitsValue(Tail(chars), acc)
  ELSE DigitsValue(Tail(chars), 10 * acc + DigitValue(Head(chars)))

HasSign(chars) == chars # <<>> /\ Head(chars) \in {"+", "-"}
Unsigned(chars) == IF HasSign(chars) THEN Tail(chars) ELSE chars
Sign(chars) == IF chars # <<>> /\ Head(chars) = "-" THEN -1 ELSE 1

\* int(s) of a str: a number, or ValueError
ParseInt(chars) ==
  LET body == Strip(chars) IN
  IF IsDigitString(Unsigned(body))
  THEN PyInt(Sign(body) * DigitsValue(Unsigned(body), 0))
  ELSE Raised("ValueError")

\* the quotient rounded towards zero, as int() of a float rounds
TruncDiv(a, b) == IF a >= 0 THEN a \div b ELSE -((-a) \div b)

\* int(value)
IntOf(value) ==
  CASE value.t = "str" -> ParseInt(value.s)
    [] value.t = "float" -> PyInt(TruncDiv(value.n, 10))
    [] value.t \in {"int", "bool"} -> PyInt(value.n)
    [] OTHER -> Raised("TypeError")

\* the decimal digits of a natural number
RECURSIVE NatChars(_)
NatChars(i) ==
  IF i < 10 THEN <<Digits[i + 1]>>
  ELSE Append(NatChars(i \div 10), Digits[(i % 10) + 1])
IntChars(i) == IF i < 0 THEN <<"-">> \o NatChars(-i) ELSE NatChars(i)

\* str(value)
StrOf(value) ==
  CASE value.t = "str" -> value
    [] value.t = "int" -> PyStr(IntChars(value.n))
    [] value.t = "bool" ->
         PyStr(IF value.n = 1 THEN <<"T", "r", "u", "e">>
               ELSE <<"F", "a", "l", "s", "e">>)
    [] value.t = "float" ->
         PyStr(IntChars(TruncDiv(value.n, 10)) \o <<".">>
               \o NatChars((IF value.n < 0 THEN -value.n ELSE value.n) % 10))
    [] value.t = "none" -> PyStr(<<"N", "o", "n", "e">>)
    [] OTHER -> Raised("TypeError")

----------------------------------------------------------------------------
(***************************************************************************)
(* Python comparisons.  A comparison yields "True", "False" or the name of *)
(* the exception it raises.                                                *)
(***************************************************************************)
Truth(b) == IF b THEN "True" ELSE "False"

\* a == b: numbers by value, str by content, None only with None
PyEq(a, b) ==
  CASE IsNumber(a) /\ IsNumber(b) -> Tenths(a) = Tenths(b)
    [] a.t = "str" /\ b.t = "str" -> a.s = b.s
    [] a.t = "none" /\ b.t = "none" -> TRUE
    [] a.t = "type" /\ b.t = "type" -> a.s = b.s
    [] OTHER -> FALSE

\* str < str: lexicographic on the characters' codes
RECURSIVE StrLess(_, _)
StrLess(x, y) ==
  IF y = <<>> THEN FALSE
  ELSE IF x = <<>> THEN TRUE
  ELSE IF Head(x) = Head(y) THEN StrLess(Tail(x), Tail(y))
  ELSE Ord(Head(x)) < Ord(Head(y))

\* whether a < b, a > b, ... is defined at all: otherwise TypeError
Orderable(a, b) ==
  \/ IsNumber(a) /\ IsNumber(b)
  \/ a.t = "str" /\ b.t = "str"

PyLess(a, b) ==
  IF a.t = "str" THEN StrLess(a.s, b.s) ELSE Tenths(a) < Tenths(b)

\* a <operator> b for the four ordering operators
PyOrder(operator, a, b) ==
  IF ~Orderable(a, b) THEN "TypeError"
  ELSE CASE operator = ">" -> Truth(PyLess(b, a))
         [] operator = ">=" -> Truth(~PyLess(a, b))
         [] operator = "<" -> Truth(PyLess(a, b))
         [] operator = "<=" -> Truth(~PyLess(b, a))

----------------------------------------------------------------------------
(***************************************************************************)
(* The condition classes of utility.py.  A condition object is a record of *)
(* its fields; its instance_id is its key in conds.                        *)
(***************************************************************************)
AttributeChangeCondition(device_id, attr_name) ==
  [kind |-> "AttributeChange", device_id |-> device_id, attr_name |-> attr_name,
   prev_value |-> None, curr_value |-> None]

DynamicDeviceAttributeCondition(first, operator, second) ==
  [kind |-> "Dynamic",
   left_device_id |-> first[1], left_attr_name |-> first[2],
   right_device_id |-> second[1], right_attr_name |-> second[2],
   operator |-> operator, left_value |-> None, right_value |-> None]

StaticDeviceAttributeCondition(device_id, attr_name, operator, static_value) ==
  [kind |-> "Static", device_id |-> device_id, attr_name |-> attr_name,
   device_value |-> None, static_value |-> static_value, operator |-> operator]

\* a subclass of HubitatCondition written outside utility.py: the base class
\* fixes only the signatures of on_device_event and get_device_ids
CustomCondition(device_ids) == [kind |-> "Custom", device_ids |-> device_ids]

\* AttributeChange_on_device_event without line 53: the previous value is lost
AttributeChange_on_device_event_noshift(c, device_id, attr_name, new_value) ==
  IF c.device_id = device_id /\ c.attr_name = attr_name
  THEN [c EXCEPT !.curr_value = new_value]
  ELSE c

\* AttributeChangeCondition.on_device_event
AttributeChange_on_device_event(c, device_id, attr_name, new_value) ==
  IF c.device_id = device_id /\ c.attr_name = attr_name
  THEN [c EXCEPT !.prev_value = c.curr_value, !.curr_value = new_value]
  ELSE c

\* AttributeChangeCondition.evaluate
AttributeChange_evaluate(c) == Truth(~PyEq(c.prev_value, c.curr_value))

\* Dynamic_on_device_event matching on the device id alone
Dynamic_on_device_event_anyattr(c, device_id, attr_name, new_value) ==
  IF device_id = c.left_device_id
  THEN [c EXCEPT !.left_value = new_value]
  ELSE IF device_id = c.right_device_id
  THEN [c EXCEPT !.right_value = new_value]
  ELSE c

\* DynamicDeviceAttributeCondition.on_device_event
Dynamic_on_device_event(c, device_id, attr_name, new_value) ==
  IF device_id = c.left_device_id /\ attr_name = c.left_attr_name
  THEN [c EXCEPT !.left_value = new_value]
  ELSE IF device_id = c.right_device_id /\ attr_name = c.right_attr_name
  THEN [c EXCEPT !.right_value = new_value]
  ELSE c

\* Dynamic_evaluate without the None tests of lines 110, 115, 120 and 125
Dynamic_evaluate_unguarded(c) ==
  CASE c.operator \in {"=", "=="} -> Truth(PyEq(c.left_value, c.right_value))
    [] c.operator \in {"!=", "<>"} -> Truth(~PyEq(c.left_value, c.right_value))
    [] c.operator \in {">", ">=", "<", "<="} ->
         PyOrder(c.operator, c.left_value, c.right_value)
    [] OTHER -> "ValueError"

\* DynamicDeviceAttributeCondition.evaluate
Dynamic_evaluate(c) ==
  CASE c.operator \in {"=", "=="} -> Truth(PyEq(c.left_value, c.right_value))
    [] c.operator \in {"!=", "<>"} -> Truth(~PyEq(c.left_value, c.right_value))
    [] c.operator \in {">", ">=", "<", "<="} ->
         IF c.left_value # None /\ c.right_value # None
         THEN PyOrder(c.operator, c.left_value, c.right_value)
         ELSE "False"
    [] OTHER -> "ValueError"

\* isinstance(x, type(int)): type(int) is the metaclass type, so this asks
\* whether x is itself a class; it is false of 5, 5.5 and "5"
IsInstanceOfTypeOfInt(x) == x.t = "type"

\* the words StaticDeviceAttributeCondition._cast_value reads as true
TruthyWords ==
  {<<"t", "r", "u", "e">>, <<"1">>, <<"y", "e", "s">>, <<"o", "n">>,
   <<"a", "c", "t", "i", "v", "e">>, <<"o", "p", "e", "n">>}

\* bool(value) of a value that is not None
PyTruthy(value) ==
  CASE value.t = "str" -> value.s # <<>>
    [] IsNumber(value) -> value.n # 0
    [] OTHER -> TRUE

\* CastAttempt without the .lower() of line 165
CastAttempt_cased(static_value, value) ==
  IF static_value.t = "bool"
  THEN IF value.t = "str"
       THEN PyBool(value.s \in TruthyWords)
       ELSE PyBool(PyTruthy(value))
  ELSE IF IsInstanceOfTypeOfInt(static_value)
  THEN IntOf(value)
  ELSE value

\* what the try block of _cast_value computes
CastAttempt(static_value, value) ==
  IF static_value.t = "bool"
  THEN IF value.t = "str"
       THEN PyBool(Lower(value.s) \in TruthyWords)
       ELSE PyBool(PyTruthy(value))
  ELSE IF IsInstanceOfTypeOfInt(static_value)
  THEN IntOf(value)
  ELSE value

\* cast_value without the except clause of lines 174-175
cast_value_uncaught(c, value) ==
  IF value = None THEN None ELSE CastAttempt(c.static_value, value)

\* StaticDeviceAttributeCondition._cast_value: the branches for float and str
\* repeat the test of the int branch and are never taken
cast_value(c, value) ==
  IF value = None THEN None
  ELSE LET r == CastAttempt(c.static_value, value) IN
       IF r.t \in {"ValueError", "TypeError"} THEN value ELSE r

\* Static_on_device_event storing the value as it came, without _cast_value
Static_on_device_event_raw(c, device_id, attr_name, new_value) ==
  IF device_id = c.device_id /\ c.attr_name = attr_name
  THEN [c EXCEPT !.device_value = new_value]
  ELSE c

\* StaticDeviceAttributeCondition.on_device_event
Static_on_device_event(c, device_id, attr_name, new_value) ==
  IF device_id = c.device_id /\ c.attr_name = attr_name
  THEN [c EXCEPT !.device_value = cast_value(c, new_value)]
  ELSE c

\* Static_evaluate whose default case answers False instead of raising
Static_evaluate_lenient(c) ==
  CASE c.operator \in {"=", "=="} -> Truth(PyEq(c.device_value, c.static_value))
    [] c.operator \in {"!=", "<>"} -> Truth(~PyEq(c.device_value, c.static_value))
    [] c.operator \in {">", ">=", "<", "<="} ->
         PyOrder(c.operator, c.device_value, c.static_value)
    [] OTHER -> "False"

\* StaticDeviceAttributeCondition.evaluate
Static_evaluate(c) ==
  CASE c.operator \in {"=", "=="} -> Truth(PyEq(c.device_value, c.static_value))
    [] c.operator \in {"!=", "<>"} -> Truth(~PyEq(c.device_value, c.static_value))
    [] c.operator \in {">", ">=", "<", "<="} ->
         PyOrder(c.operator, c.device_value, c.static_value)
    [] OTHER -> "ValueError"

\* get_device_ids of each class
get_device_ids(c) ==
  CASE c.kind = "AttributeChange" -> <<c.device_id>>
    [] c.kind = "Dynamic" -> <<c.left_device_id, c.right_device_id>>
    [] c.kind = "Static" -> <<c.device_id>>
    [] c.kind = "Custom" -> c.device_ids

\* condition.on_device_event(...), by the object's class; a Custom condition
\* keeps no state the model reads
on_device_event(c, device_id, attr_name, new_value) ==
  CASE c.kind = "AttributeChange" ->
         AttributeChange_on_device_event(c, device_id, attr_name, new_value)
    [] c.kind = "Dynamic" ->
         Dynamic_on_device_event(c, device_id, attr_name, new_value)
    [] c.kind = "Static" ->
         Static_on_device_event(c, device_id, attr_name, new_value)
    [] c.kind = "Custom" -> c

\* condition.evaluate(), by the object's class
evaluate(c) ==
  CASE c.kind = "AttributeChange" -> AttributeChange_evaluate(c)
    [] c.kind = "Dynamic" -> Dynamic_evaluate(c)
    [] c.kind = "Static" -> Static_evaluate(c)
    [] c.kind = "Custom" -> "False"

\* the (device, attribute) pairs whose events change the object
TrackedPairs(c) ==
  CASE c.kind = "AttributeChange" -> {<<c.device_id, c.attr_name>>}
    [] c.kind = "Dynamic" -> {<<c.left_device_id, c.left_attr_name>>,
                               <<c.right_device_id, c.right_attr_name>>}
    [] c.kind = "Static" -> {<<c.device_id, c.attr_name>>}
    [] c.kind = "Custom" -> {}

----------------------------------------------------------------------------
(***************************************************************************)
(* The state of a HubitatPlugin and of the condition objects.              *)
(***************************************************************************)
VARIABLES
  event_q,                \* self._event_q: the queued (device_id, attr_name, new_value)
  conditions_for_device,  \* self._conditions_for_device: device id -> the bucket's
                          \* instance ids, in the dict's insertion order
  conds,                  \* the condition objects, by instance_id
  pc,                     \* where run() stands: "get", "yield" or "raised"
  batch,                  \* the list run() is suspended on at its yield
  registered,             \* history: per condition, the register_condition calls since
                          \* its last unregister_condition, counted up to 2
  calls,                  \* history: how many webhook calls were made
  enqueued,               \* history: how many events the webhook handler has queued
  dispatched,             \* history: the events run() has dequeued, in order
  emitted,                \* history: the ids of the events run() has yielded a batch for
  notified,               \* history: the on_device_event calls of the turn that led
                          \* to the present yield or exception, each with the
                          \* condition's registration count at the call
  resp,                   \* history: the last webhook call and its outcome
  observed,               \* history: per condition, the values of the matching events it got
  entered,                \* history: per device id, the conditions registered under it
                          \* now, in the order of their first register_condition call
                          \* since their last unregister_condition
  first_registered,       \* history, kept where .on is set: the conditions in the order
                          \* of their first register_condition call ever
  removed_at,             \* history, kept where .on is set: the pairs of a condition
                          \* that is unregistered and the id of an event that was in
                          \* the queue when its unregister_condition returned
  he_api,                 \* history: the device data the hub returned for he_device
  he_device,              \* Device._device: the HubitatDevice a Device facade holds
  he_requests,            \* history: the urls HubitatClient._make_request was called with
  he_result               \* history: the last facade operation and its outcome

vars ==
  <<event_q, conditions_for_device, conds, pc, batch, registered, calls,
    enqueued, dispatched, emitted, notified, resp, observed, entered,
    first_registered, removed_at, he_api, he_device, he_requests, he_result>>

\* the state of the device facade and of the hub client
facade_vars == <<he_api, he_device, he_requests, he_result>>
\* the histories of registration order
order_vars == <<entered, first_registered, removed_at>>

Range(seq) == {seq[i] : i \in 1..Len(seq)}
Remove(seq, x) == SelectSeq(seq, LAMBDA y : y # x)
CondIds == DOMAIN conds

\* the function f without the key k
Without(f, k) == [x \in (DOMAIN f) \ {k} |-> f[x]]

(***************************************************************************)
(* HubitatPlugin.register_condition                                        *)
(***************************************************************************)
\* lines 61-62: create the device's bucket when it has none
EnsureBucket(index, device_id) ==
  IF device_id \notin DOMAIN index THEN index @@ (device_id :> <<>>) ELSE index

\* InsertCondition without the membership test of line 63
InsertCondition_unchecked(bucket, instance_id) == Append(bucket, instance_id)

\* lines 63-64: insert under instance_id unless it is there already
InsertCondition(bucket, instance_id) ==
  IF instance_id \notin Range(bucket) THEN Append(bucket, instance_id) ELSE bucket

\* register_condition giving way after the first device id: the others are
\* not yet inserted when the loop runs
register_condition_partial(index, instance_id, device_ids) ==
  IF device_ids = <<>> THEN index
  ELSE [EnsureBucket(index, Head(device_ids)) EXCEPT
          ![Head(device_ids)] = InsertCondition(@, instance_id)]

RECURSIVE register_condition(_, _, _)
register_condition(index, instance_id, device_ids) ==
  IF device_ids = <<>> THEN index
  ELSE LET device_id == Head(device_ids)
           made == EnsureBucket(index, device_id)
           put == [made EXCEPT ![device_id] = InsertCondition(@, instance_id)]
       IN register_condition(put, instance_id, Tail(device_ids))

(***************************************************************************)
(* HubitatPlugin.unregister_condition                                      *)
(***************************************************************************)
\* DropIfEmpty without lines 75-76: the emptied bucket stays
DropIfEmpty_kept(index, device_id) == index

\* DropIfEmpty deleting the bucket whatever is left in it
DropIfEmpty_always(index, device_id) == Without(index, device_id)

\* lines 75-76: delete the bucket that the removal left empty
DropIfEmpty(index, device_id) ==
  IF Len(index[device_id]) = 0 THEN Without(index, device_id) ELSE index

\* UnregisterFrom that deletes the entry only from a bucket that holds others
UnregisterFrom_sole_kept(index, instance_id, device_id) ==
  IF /\ device_id \in DOMAIN index
     /\ instance_id \in Range(index[device_id])
     /\ Len(index[device_id]) > 1
  THEN [index EXCEPT ![device_id] = Remove(@, instance_id)]
  ELSE index

\* lines 69-76, for one device id
UnregisterFrom(index, instance_id, device_id) ==
  IF device_id \in DOMAIN index /\ instance_id \in Range(index[device_id])
  THEN DropIfEmpty([index EXCEPT ![device_id] = Remove(@, instance_id)], device_id)
  ELSE index

RECURSIVE unregister_condition(_, _, _)
unregister_condition(index, instance_id, device_ids) ==
  IF device_ids = <<>> THEN index
  ELSE unregister_condition(UnregisterFrom(index, instance_id, Head(device_ids)),
                            instance_id, Tail(device_ids))

(***************************************************************************)
(* HubitatPlugin.run: one turn of the loop, from the return of             *)
(* event_q.get() to the yield or to the next get().  The turn has no await *)
(* in it, so it is one step of the event loop.                             *)
(***************************************************************************)
\* asyncio.Queue.get on a non-empty queue: the oldest entry
QueueGet(q) == Head(q)
QueueRest(q) == Tail(q)
\* QueuePut at the wrong end: a stack
QueuePut_front(q, item) == <<item>> \o q

\* QueuePut on a queue of size 1 that drops what does not fit
QueuePut_bounded(q, item) == IF Len(q) >= 1 THEN q ELSE Append(q, item)

\* asyncio.Queue.put on an unbounded queue
QueuePut(q, item) == Append(q, item)

\* self._conditions_for_device.get(device_id, {}).values()
Bucket(index, device_id) ==
  IF device_id \in DOMAIN index THEN index[device_id] ELSE <<>>

Matches(c, event) == <<event.device_id, event.attr_name>> \in TrackedPairs(c)

\* lines 46-47: the objects after on_device_event was called on ids[1..n]
RECURSIVE NotifyEach(_, _, _)
NotifyEach(objects, ids, event) ==
  IF ids = <<>> THEN objects
  ELSE NotifyEach(
         [objects EXCEPT ![Head(ids)] =
            on_device_event(@, event.device_id, event.attr_name, event.new_value)],
         Tail(ids), event)

\* Collected putting each condition in front of those before it
RECURSIVE Collected_reversed(_, _)
Collected_reversed(ids, conditions) ==
  IF ids = <<>> THEN conditions
  ELSE Collected_reversed(Tail(ids), <<Head(ids)>> \o conditions)

\* line 48: the list the loop builds, one append per call of line 47
RECURSIVE Collected(_, _)
Collected(ids, conditions) ==
  IF ids = <<>> THEN conditions
  ELSE Collected(Tail(ids), Append(conditions, Head(ids)))

\* ShouldYield without the test of line 51
ShouldYield_always(conditions) == TRUE

\* line 51: whether the turn ends in a yield
ShouldYield(conditions) == Len(conditions) > 0

\* the calls of line 47, as history
Calls(ids) ==
  [i \in 1..Len(ids) |->
     [instance_id |-> ids[i], registrations |-> registered[ids[i]]]]

\* the matching values each notified condition has now seen
RECURSIVE ObserveEach(_, _, _)
ObserveEach(obs, ids, event) ==
  IF ids = <<>> THEN obs
  ELSE ObserveEach(
         IF Matches(conds[Head(ids)], event)
         THEN [obs EXCEPT ![Head(ids)] = Append(@, event.new_value)]
         ELSE obs,
         Tail(ids), event)

----------------------------------------------------------------------------
(***************************************************************************)
(* The conditions, devices and webhook bodies of the model.                *)
(***************************************************************************)
Attrs == {"switch", "level"}
Operators == {"=", "==", "!=", "<>", ">", ">=", "<", "<="}
OrderingOperators == {">", ">=", "<", "<="}

On == PyStr(<<"o", "n">>)
Off == PyStr(<<"o", "f", "f">>)

\* the condition objects the rules of the plugin model hold
Pool ==
  (1 :> StaticDeviceAttributeCondition(42, "switch", "=", PyBool(TRUE)))
  @@ (2 :> DynamicDeviceAttributeCondition(<<42, "level">>, "=", <<7, "level">>))
  @@ (3 :> DynamicDeviceAttributeCondition(<<7, "switch">>, ">", <<7, "level">>))

\* the same plugin with a condition class of the rule author's own
PoolFault ==
  (1 :> AttributeChangeCondition(42, "switch"))
  @@ (2 :> CustomCondition(<<42>>))
  @@ (3 :> StaticDeviceAttributeCondition(42, "switch", "=", PyBool(TRUE)))

\* a webhook body: HubitatDeviceEvent
Body(deviceId, name, value) == [deviceId |-> deviceId, name |-> name, value |-> value]

\* the bodies posted to /he_event
Bodies ==
  {Body(<<"4", "2">>, "switch", On),
   Body(<<"4", "2">>, "level", PyInt(5)),
   Body(<<" ", "7">>, "level", PyInt(5)),
   Body(<<"x">>, "switch", On)}

\* the device ids of the model's conditions and events
DeviceIds == {42, 7}

\* no Device facade was made and no request was sent
NoDevice ==
  [t |-> "HubitatDevice", id |-> <<>>, attributes |-> <<>>,
   capabilities |-> <<>>]
NoFacade ==
  /\ he_api = [id |-> <<>>, attributes |-> <<>>, capabilities |-> <<>>,
               commands |-> {}]
  /\ he_device = NoDevice
  /\ he_requests = <<>>
  /\ he_result = [op |-> "none"]

\* the order of first registrations is not recorded
Untracked == [on |-> FALSE, order |-> <<>>]
\* the events queued at an unregistration are not recorded
Unrecorded == [on |-> FALSE, pending |-> {}]
\* neither history is kept
NoOrderHistory == first_registered = Untracked /\ removed_at = Unrecorded

InitWith(objects) ==
  /\ event_q = <<>>
  /\ conditions_for_device = [d \in {} |-> <<>>]
  /\ conds = objects
  /\ pc = "get"
  /\ batch = <<>>
  /\ registered = [c \in DOMAIN objects |-> 0]
  /\ calls = 0
  /\ enqueued = 0
  /\ dispatched = <<>>
  /\ emitted = <<>>
  /\ notified = <<>>
  /\ resp = [result |-> "none", deviceId |-> <<>>]
  /\ observed = [c \in DOMAIN objects |-> <<>>]
  /\ entered = [d \in DeviceIds |-> <<>>]

Init == InitWith(Pool) /\ NoOrderHistory /\ NoFacade

(***************************************************************************)
(* The operations.                                                         *)
(***************************************************************************)
\* HubitatCondition.initialize -> HubitatPlugin.register_condition
Register(c) ==
  /\ conditions_for_device' =
       register_condition(conditions_for_device, c, get_device_ids(conds[c]))
  /\ registered' = [registered EXCEPT ![c] = IF @ < 2 THEN @ + 1 ELSE @]
  /\ entered' =
       [d \in DOMAIN entered |->
          IF d \in Range(get_device_ids(conds[c])) /\ c \notin Range(entered[d])
          THEN Append(entered[d], c) ELSE entered[d]]
  /\ first_registered' =
       IF first_registered.on /\ c \notin Range(first_registered.order)
       THEN [first_registered EXCEPT !.order = Append(@, c)]
       ELSE first_registered
  /\ removed_at' =
       [removed_at EXCEPT !.pending = {p \in @ : p[1] # c}]
  /\ UNCHANGED <<event_q, conds, pc, batch, calls, enqueued, dispatched,
                 emitted, notified, resp, observed, facade_vars>>

\* HubitatCondition.removed -> HubitatPlugin.unregister_condition
Unregister(c) ==
  /\ conditions_for_device' =
       unregister_condition(conditions_for_device, c, get_device_ids(conds[c]))
  /\ registered' = [registered EXCEPT ![c] = 0]
  /\ entered' = [d \in DOMAIN entered |-> Remove(entered[d], c)]
  /\ UNCHANGED first_registered
  /\ removed_at' =
       IF removed_at.on
       THEN [removed_at EXCEPT
               !.pending = {p \in @ : p[1] # c}
                             \cup {<<c, event_q[i].id>> : i \in 1..Len(event_q)}]
       ELSE removed_at
  /\ UNCHANGED <<event_q, conds, pc, batch, calls, enqueued, dispatched,
                 emitted, notified, resp, observed, facade_vars>>

\* HubitatPlugin._on_device_event: int(event.device_id) raises before the put
\* when the string is no integer literal
Webhook(event) ==
  LET device_id == ParseInt(event.deviceId) IN
  /\ calls < MaxCalls
  /\ calls' = calls + 1
  /\ \/ /\ device_id.t = "ValueError"
        /\ resp' = [result |-> "error", deviceId |-> event.deviceId]
        /\ UNCHANGED <<event_q, enqueued>>
     \/ /\ device_id.t = "int"
        /\ event_q' = QueuePut(event_q,
                        [id |-> enqueued + 1, device_id |-> device_id.n,
                         attr_name |-> event.name, new_value |-> event.value])
        /\ enqueued' = enqueued + 1
        /\ resp' = [result |-> "success", deviceId |-> event.deviceId]
  /\ UNCHANGED <<conditions_for_device, conds, pc, batch, registered,
                 dispatched, emitted, notified, observed, order_vars,
                 facade_vars>>

\* one turn of run() in which every on_device_event returns
Dispatch ==
  /\ pc = "get"
  /\ event_q # <<>>
  /\ LET event == QueueGet(event_q)
         ids == Bucket(conditions_for_device, event.device_id)
         conditions == Collected(ids, <<>>)
     IN /\ event_q' = QueueRest(event_q)
        /\ conds' = NotifyEach(conds, ids, event)
        /\ observed' = ObserveEach(observed, ids, event)
        /\ notified' = Calls(ids)
        /\ pc' = IF ShouldYield(conditions) THEN "yield" ELSE "get"
        /\ batch' = IF ShouldYield(conditions) THEN conditions ELSE <<>>
        /\ emitted' = IF ShouldYield(conditions)
                      THEN Append(emitted, event.id) ELSE emitted
        /\ dispatched' = Append(dispatched, event)
  /\ UNCHANGED <<conditions_for_device, registered, calls, enqueued, resp,
                 order_vars, facade_vars>>

\* the rule engine asks the generator for its next batch
Resume ==
  /\ pc = "yield"
  /\ pc' = "get"
  /\ batch' = <<>>
  /\ notified' = <<>>
  /\ UNCHANGED <<event_q, conditions_for_device, conds, registered, calls,
                 enqueued, dispatched, emitted, resp, observed, order_vars,
                 facade_vars>>

\* one turn of run() in which the on_device_event of the k-th condition of the
\* bucket raises: lines 46-48 have no try, so the exception leaves run()
DispatchRaise ==
  /\ pc = "get"
  /\ event_q # <<>>
  /\ LET event == QueueGet(event_q)
         ids == Bucket(conditions_for_device, event.device_id)
     IN \E k \in 1..Len(ids) :
          /\ conds[ids[k]].kind = "Custom"
          /\ event_q' = QueueRest(event_q)
          /\ conds' = NotifyEach(conds, SubSeq(ids, 1, k - 1), event)
          /\ observed' = ObserveEach(observed, SubSeq(ids, 1, k - 1), event)
          /\ notified' = Calls(SubSeq(ids, 1, k))
          /\ pc' = "raised"
          /\ batch' = <<>>
          /\ dispatched' = Append(dispatched, event)
  /\ UNCHANGED <<conditions_for_device, registered, calls, enqueued, emitted,
                 resp, order_vars, facade_vars>>

Next ==
  \/ \E c \in CondIds : Register(c)
  \/ \E c \in CondIds : Unregister(c)
  \/ \E event \in Bodies : Webhook(event)
  \/ Dispatch
  \/ Resume

Spec == Init /\ [][Next]_vars

\* the plugin with a condition whose on_device_event can raise
InitFault == InitWith(PoolFault) /\ NoOrderHistory /\ NoFacade
NextFault == Next \/ DispatchRaise
SpecFault == InitFault /\ [][NextFault]_vars

----------------------------------------------------------------------------
(***************************************************************************)
(* The plugin with conditions of one device, and the order of their first  *)
(* registrations on record.                                                *)
(***************************************************************************)
PoolOrder ==
  (1 :> AttributeChangeCondition(42, "switch"))
  @@ (2 :> StaticDeviceAttributeCondition(42, "switch", "=", PyBool(TRUE)))

InitOrder ==
  /\ InitWith(PoolOrder)
  /\ first_registered = [on |-> TRUE, order |-> <<>>]
  /\ removed_at = Unrecorded
  /\ NoFacade

SpecOrder == InitOrder /\ [][Next]_vars

\* the same plugin, with the events queued at each unregistration on record
InitRemoval ==
  /\ InitWith(PoolOrder)
  /\ first_registered = Untracked
  /\ removed_at = [on |-> TRUE, pending |-> {}]
  /\ NoFacade

SpecRemoval == InitRemoval /\ [][Next]_vars

\* The plugin with its consumer: the event loop runs a getter that a put has
\* woken (asyncio's ready queue is first in, first out), and the rule engine
\* asks the generator for the next batch after each one it got.
InitLive == InitWith(PoolOrder) /\ NoOrderHistory /\ NoFacade

SpecLive ==
  InitLive /\ [][Next]_vars /\ WF_vars(Dispatch) /\ WF_vars(Resume)

----------------------------------------------------------------------------
(***************************************************************************)
(* The hub client and the device facade.  A url is the path after the      *)
(* client's address: <<"devices", device_id, command>> and, when there is  *)
(* one, the segment of the arguments.                                      *)
(***************************************************************************)
\* load_hubitat_capabilities(): capability name -> the names of its commands
\* (a sample; "Lock" has a command named like its attribute)
Capabilities ==
  ("Switch" :> {"on", "off"}) @@ ("Lock" :> {"lock", "unlock"})

\* the commands the hub lists for a capability, known to the catalogue or not
HubCommands ==
  Capabilities @@ ("Zigbee" :> {"configure"})

\* HubitatDevice._parse_attributes: the keys of the api dict, in its order,
\* without the metadata fields
parse_attributes(api_attributes) ==
  SelectSeq(api_attributes, LAMBDA name : name \notin {"dataType", "values"})

\* HubitatDevice._parse_capabilities: unknown names are skipped
parse_capabilities(capability_names, capabilities_map) ==
  SelectSeq(capability_names, LAMBDA name : name \in DOMAIN capabilities_map)

\* HubitatDevice.from_api_data: the fields the facade reads; "commands" is
\* popped.  cls(**transformed_data) raises pydantic's ValidationError for a
\* record that lacks a str the class requires; the model has it for label
from_api_data(device_data, capabilities_map) ==
  IF device_data.label = None THEN Raised("ValidationError")
  ELSE [t |-> "HubitatDevice", id |-> device_data.id,
        attributes |-> parse_attributes(device_data.attributes),
        capabilities |->
          parse_capabilities(device_data.capabilities, capabilities_map)]

\* HubitatDevice.has_attribute
has_attribute(device, attr_name) ==
  \E i \in 1..Len(device.attributes) : device.attributes[i] = attr_name

\* HubitatDevice.has_command
has_command(device, command_name) ==
  \E i \in 1..Len(device.capabilities) :
    command_name \in Capabilities[device.capabilities[i]]

\* int(self._device.id)
DeviceIdOf(device) == IntOf(PyStr(device.id)).n

\* Device.__getattr__ asking has_command before has_attribute
Device_getattr_command_first(device, attr_name) ==
  IF has_command(device, attr_name)
  THEN [kind |-> "Command", device_id |-> DeviceIdOf(device),
        command_name |-> attr_name]
  ELSE IF has_attribute(device, attr_name)
  THEN [kind |-> "Attribute", device_id |-> DeviceIdOf(device),
        attr_name |-> attr_name]
  ELSE [kind |-> "AttributeError", attr_name |-> attr_name,
        device |-> device.id]

\* Device.__getattr__: the object it returns, or the AttributeError with the
\* name and the device id of its message
Device_getattr(device, attr_name) ==
  IF has_attribute(device, attr_name)
  THEN [kind |-> "Attribute", device_id |-> DeviceIdOf(device),
        attr_name |-> attr_name]
  ELSE IF has_command(device, attr_name)
  THEN [kind |-> "Command", device_id |-> DeviceIdOf(device),
        command_name |-> attr_name]
  ELSE [kind |-> "AttributeError", attr_name |-> attr_name,
        device |-> device.id]

\* sep.join(parts) of strs
RECURSIVE Join(_, _)
Join(sep, parts) ==
  IF parts = <<>> THEN <<>>
  ELSE IF Len(parts) = 1 THEN parts[1]
  ELSE parts[1] \o sep \o Join(sep, Tail(parts))

\* len(arguments) and iteration over arguments, of the values of the model:
\* only a str has a length, and iterating it yields its characters
PyLen(value) ==
  IF value.t = "str" THEN PyInt(Len(value.s)) ELSE Raised("TypeError")
PyIter(value) == [i \in 1..Len(value.s) |-> PyStr(<<value.s[i]>>)]

\* HubitatClient.send_command up to its request: the url, or the exception
send_command(device_id, command, arguments) ==
  LET url == <<"devices", device_id, command>>
  IN IF arguments = None THEN [t |-> "url", path |-> url]
     ELSE IF IsRaised(PyLen(arguments)) THEN PyLen(arguments)
     ELSE IF PyLen(arguments).n > 0
     THEN [t |-> "url",
           path |-> Append(url,
                      Join(<<",">>,
                           [i \in 1..Len(PyIter(arguments)) |->
                              StrOf(PyIter(arguments)[i]).s]))]
     ELSE [t |-> "url", path |-> url]

\* Command.__call__: send_command(self._device_id, self._command_name, *args)
\* binds args to the one parameter arguments, that defaults to None; more
\* than one is a TypeError of the call
Command_call(device_id, command_name, args) ==
  IF Len(args) > 1 THEN Raised("TypeError")
  ELSE send_command(device_id, command_name,
                    IF args = <<>> THEN None ELSE args[1])

\* HubitatClient._make_request returns the response, or raises when the
\* request fails or its status is not 200
RequestOutcomes == {"ok", "Exception"}

\* the devices the hub reports
ApiDevices ==
  {[id |-> id, label |-> PyStr(<<"L">>), attributes |-> attributes,
    capabilities |-> capabilities,
    commands |-> UNION {HubCommands[name] : name \in Range(capabilities)}] :
     id \in {<<"4", "2">>, <<"7">>},
     attributes \in {<<>>, <<"switch">>, <<"lock", "values">>},
     capabilities \in {<<>>, <<"Switch">>, <<"Lock", "Zigbee">>,
                       <<"Zigbee", "Switch">>}}

\* the names asked of a Device, the commands called and their arguments
Names == {"switch", "lock", "values", "on", "unlock", "configure"}
CommandNames == {"on", "setLevel"}
CommandArgs ==
  {<<>>, <<PyInt(50)>>, <<PyStr(<<"o", "n">>)>>, <<PyStr(<<"5">>)>>,
   <<PyInt(50), PyInt(10)>>}

\* HubitatUtility.device(device_id) has returned a Device
InitFacade ==
  /\ InitWith(Pool)
  /\ NoOrderHistory
  /\ \E device_data \in ApiDevices :
       /\ he_api = device_data
       /\ he_device = from_api_data(device_data, Capabilities)
  /\ he_requests = <<>>
  /\ he_result = [op |-> "none"]

\* device.<attr_name>
GetAttr(attr_name) ==
  /\ he_result' = [op |-> "getattr", attr_name |-> attr_name,
                   outcome |-> Device_getattr(he_device, attr_name)]
  /\ UNCHANGED <<event_q, conditions_for_device, conds, pc, batch, registered,
                 calls, enqueued, dispatched, emitted, notified, resp,
                 observed, order_vars, he_api, he_device, he_requests>>

\* await Command(int(device.id), command_name, he_client)(*args)
CommandCall(command_name, args) ==
  LET r == Command_call(DeviceIdOf(he_device), command_name, args)
  IN /\ IF IsRaised(r)
        THEN /\ he_result' = [op |-> "call", command_name |-> command_name,
                              args |-> args, outcome |-> r.t, sent |-> <<>>]
             /\ UNCHANGED he_requests
        ELSE /\ Len(he_requests) < MaxRequests
             /\ he_requests' = Append(he_requests, r.path)
             /\ \E outcome \in RequestOutcomes :
                  he_result' = [op |-> "call", command_name |-> command_name,
                                args |-> args, outcome |-> outcome,
                                sent |-> <<r.path>>]
     /\ UNCHANGED <<event_q, conditions_for_device, conds, pc, batch,
                    registered, calls, enqueued, dispatched, emitted, notified,
                    resp, observed, order_vars, he_api, he_device>>

NextFacade ==
  \/ \E attr_name \in Names : GetAttr(attr_name)
  \/ \E command_name \in CommandNames, args \in CommandArgs :
       CommandCall(command_name, args)

SpecFacade == InitFacade /\ [][NextFacade]_vars

----------------------------------------------------------------------------
(***************************************************************************)
(* HubitatClient.get_all_devices: the request for devices/all and the      *)
(* transformation of the records of its response.                          *)
(***************************************************************************)
\* TransformAll logging a record it cannot transform and going on
RECURSIVE TransformAll_skipping(_, _, _)
TransformAll_skipping(devices_data, capabilities_map, devices) ==
  IF devices_data = <<>> THEN [t |-> "list", items |-> devices]
  ELSE LET device == from_api_data(Head(devices_data), capabilities_map)
       IN TransformAll_skipping(Tail(devices_data), capabilities_map,
                                IF IsRaised(device) THEN devices
                                ELSE Append(devices, device))

\* lines 217-228: the list of the transformed records, or the error of the
\* first record that from_api_data raises for, which the except clause
\* raises again
RECURSIVE TransformAll(_, _, _)
TransformAll(devices_data, capabilities_map, devices) ==
  IF devices_data = <<>> THEN [t |-> "list", items |-> devices]
  ELSE LET device == from_api_data(Head(devices_data), capabilities_map)
       IN IF IsRaised(device) THEN device
          ELSE TransformAll(Tail(devices_data), capabilities_map,
                            Append(devices, device))

\* line 230: {int(d.id): d for d in devices}; of two devices with one key
\* the later stays
DictByIntId(devices) ==
  LET key(i) == IntOf(PyStr(devices[i].id)).n
      last(k) == CHOOSE i \in 1..Len(devices) :
                   key(i) = k /\ \A j \in 1..Len(devices) : key(j) = k => j <= i
  IN [t |-> "dict",
      items |-> [k \in {key(i) : i \in 1..Len(devices)} |-> devices[last(k)]]]

\* get_all_devices from the parsed response on: the dict, or the exception
get_all_devices(devices_data, capabilities_map) ==
  LET devices == TransformAll(devices_data, capabilities_map, <<>>)
  IN IF IsRaised(devices) THEN devices ELSE DictByIntId(devices.items)

\* the records of devices/all: the hub gives each device its own integer id;
\* a device without a label has null for it
HubRecords ==
  {[id |-> id, label |-> label, attributes |-> <<"switch">>,
    capabilities |-> <<"Switch", "Zigbee">>,
    commands |-> {"on", "off", "configure"}] :
     id \in {<<"4", "2">>, <<"7">>, <<"1", "3">>},
     label \in {PyStr(<<"L">>), None}}

\* the responses: up to MaxDevices records of different devices
Responses ==
  {devices_data \in UNION {[1..n -> HubRecords] : n \in 0..MaxDevices} :
     \A i, j \in 1..Len(devices_data) :
       devices_data[i].id = devices_data[j].id => i = j}

InitFetch ==
  /\ InitWith(Pool)
  /\ NoOrderHistory
  /\ NoFacade

\* await he_client.get_all_devices()
GetAllDevices(devices_data) ==
  /\ Len(he_requests) < MaxRequests
  /\ he_requests' = Append(he_requests, <<"devices", "all">>)
  /\ \E outcome \in RequestOutcomes :
       he_result' =
         [op |-> "get_all_devices", request |-> outcome,
          devices_data |-> devices_data,
          outcome |-> IF outcome = "ok"
                      THEN get_all_devices(devices_data, Capabilities)
                      ELSE Raised("Exception")]
  /\ UNCHANGED <<event_q, conditions_for_device, conds, pc, batch, registered,
                 calls, enqueued, dispatched, emitted, notified, resp,
                 observed, order_vars, he_api, he_device>>

NextFetch == \E devices_data \in Responses : GetAllDevices(devices_data)

SpecFetch == InitFetch /\ [][NextFetch]_vars

----------------------------------------------------------------------------
(***************************************************************************)
(* One condition object on its own: it is built with any operator and      *)
(* static value, and on_device_event is called on it with any event.       *)
(***************************************************************************)
Str5 == PyStr(<<"5">>)

\* the static values a rule compares an attribute with; the last is the class
\* int itself, the one kind of value isinstance(x, type(int)) accepts
StaticValues == {PyBool(TRUE), PyInt(5), PyFloat(55), Str5, PyClass(<<"i", "n", "t">>)}

\* the values events carry
CondValues ==
  {None, PyInt(5), PyInt(7), PyFloat(55), Str5, On, Off,
   PyStr(<<"O", "N">>), PyStr(<<"T", "r", "u", "e">>),
   PyStr(<<"a", "c", "t", "i", "v", "e">>), PyStr(<<"O", "p", "e", "n">>)}

\* the operator strings a condition is built with; "~=" is none of the known
CondOperators == Operators \cup {"~="}

CondConfigs ==
  {AttributeChangeCondition(42, "switch")}
  \cup {DynamicDeviceAttributeCondition(<<42, "level">>, op, <<7, "level">>) :
          op \in CondOperators}
  \cup {StaticDeviceAttributeCondition(42, "level", op, sv) :
          op \in CondOperators, sv \in StaticValues}

InitCond ==
  /\ \E c \in CondConfigs : InitWith(1 :> c)
  /\ NoOrderHistory
  /\ NoFacade

\* condition.on_device_event(device_id, attr_name, new_value), called directly
CondEvent(c, device_id, attr_name, new_value) ==
  LET event == [id |-> 0, device_id |-> device_id, attr_name |-> attr_name,
                new_value |-> new_value]
  IN /\ Matches(conds[c], event) => Len(observed[c]) < MaxObserved
     /\ conds' = NotifyEach(conds, <<c>>, event)
     /\ observed' = ObserveEach(observed, <<c>>, event)
     /\ notified' = Calls(<<c>>)
     /\ UNCHANGED <<event_q, conditions_for_device, pc, batch, registered,
                    calls, enqueued, dispatched, emitted, resp, order_vars,
                    facade_vars>>

NextCond ==
  \E c \in CondIds, device_id \in {42, 7}, attr_name \in Attrs,
     new_value \in CondValues :
    CondEvent(c, device_id, attr_name, new_value)

SpecCond == InitCond /\ [][NextCond]_vars

----------------------------------------------------------------------------
(***************************************************************************)
(* Properties of the plugin: the condition index, the queue, the loop.     *)
(***************************************************************************)
IsRegistered(c) == registered[c] >= 1
DependsOn(c, d) == d \in Range(get_device_ids(conds[c]))
\* how often x occurs in seq
Count(seq, x) == Cardinality({i \in 1..Len(seq) : seq[i] = x})
NotifiedIds == [i \in 1..Len(notified) |-> notified[i].instance_id]
\* the step is a turn of run(): an event left the queue
IsTurn == Len(dispatched') = Len(dispatched) + 1

\* C1: whatever register_condition and unregister_condition calls were made,
\* a device id is a key of the index iff a condition that is registered now
\* lists it in get_device_ids(), and no bucket of the index is empty.
C1_IndexMatchesRegistered ==
  /\ \A d \in DeviceIds :
       d \in DOMAIN conditions_for_device
         <=> \E c \in CondIds : IsRegistered(c) /\ DependsOn(c, d)
  /\ \A d \in DOMAIN conditions_for_device : conditions_for_device[d] # <<>>

\* C1 witness: condition 3, which lists device 7 twice, is registered a second
\* time while condition 2, once registered (it was notified of an event), has
\* been unregistered, leaving device 7 to condition 3 and no bucket for 42.
C1_Witness ==
  /\ registered[3] = 2
  /\ registered[2] = 0 /\ observed[2] # <<>>
  /\ registered[1] = 0
  /\ DOMAIN conditions_for_device = {7}
  /\ conditions_for_device[7] = <<3>>

\* C2: when a turn of run() dequeues an event for a device of a condition
\* that has been registered twice or more since its last unregistration, that
\* turn calls the condition's on_device_event exactly once and the batch it
\* yields holds the condition exactly once.
C2_RepeatedRegistrationNotifiesOnce ==
  [][IsTurn =>
       \A c \in CondIds :
         (registered[c] = 2 /\ DependsOn(c, QueueGet(event_q).device_id))
           => /\ Count(NotifiedIds', c) = 1
              /\ pc' = "yield"
              /\ Count(batch', c) = 1]_vars

\* C2 witness: run() is suspended on a batch that holds a condition whose
\* on_device_event was called when the condition had been registered twice.
C2_Witness ==
  /\ pc = "yield"
  /\ \E i \in 1..Len(notified) :
       /\ notified[i].registrations = 2
       /\ notified[i].instance_id \in Range(batch)

\* C3: events leave the queue in the order the webhook handler queued them,
\* each at most once and none before it was queued: the dequeued events are
\* the first ones queued, in order, and the queue holds the rest, in order.
C3_FifoDispatch ==
  /\ Len(dispatched) + Len(event_q) = enqueued
  /\ \A i \in 1..Len(dispatched) : dispatched[i].id = i
  /\ \A i \in 1..Len(event_q) : event_q[i].id = Len(dispatched) + i

\* C3 witness: two events were queued and both have been dispatched.
C3_Witness == enqueued = 2 /\ Len(dispatched) = 2 /\ event_q = <<>>

\* C4: a turn of run() yields one batch, and a batch that is not empty, when
\* a condition is registered for the dequeued event's device at that moment,
\* and yields nothing when none is; nothing is yielded outside such a turn.
C4_BatchIffRegistered ==
  [][(IsTurn =>
        (LET event == QueueGet(event_q)
             tracked == \E c \in CondIds :
                          IsRegistered(c) /\ DependsOn(c, event.device_id)
         IN (tracked => (/\ pc' = "yield"
                         /\ batch' # <<>>
                         /\ emitted' = Append(emitted, event.id)))
            /\ (~tracked => (/\ pc' = "get"
                             /\ batch' = <<>>
                             /\ emitted' = emitted))))
     /\ (~IsTurn => (emitted' = emitted /\ (pc' = "yield" => pc = "yield")))
     /\ (pc' = "yield" => batch' # <<>>)]_vars

\* C4 witness: the first event, for device 42, was yielded in a batch to the
\* one condition registered then; that condition was unregistered, and the
\* second event for device 42 was dispatched without a batch.
C4_Witness ==
  /\ Len(dispatched) = 2
  /\ dispatched[1].device_id = 42 /\ dispatched[2].device_id = 42
  /\ emitted = <<1>>
  /\ observed[1] # <<>>
  /\ \A c \in CondIds : registered[c] = 0
  /\ pc = "get" /\ batch = <<>>

\* C5: when the on_device_event of one condition of the bucket fails, the
\* turn of run() still calls on_device_event on every condition of the bucket
\* and run() does not end with the exception.
C5_FaultsIsolated ==
  [][IsTurn =>
       (/\ pc' # "raised"
        /\ \A c \in Range(Bucket(conditions_for_device,
                                 QueueGet(event_q).device_id)) :
             Count(NotifiedIds', c) = 1)]_vars

\* C6: every call of the webhook, whatever string its deviceId is, queues its
\* event under the integer the string stands for and answers success.
C6_WebhookAlwaysSucceeds ==
  /\ resp.result \in {"none", "success"}
  /\ enqueued = calls
  /\ (resp.result = "success" /\ event_q # <<>>)
       => PyInt(event_q[Len(event_q)].device_id) = ParseInt(resp.deviceId)

----------------------------------------------------------------------------
(***************************************************************************)
(* Properties of the condition classes.                                    *)
(***************************************************************************)
\* the value of the last matching event the condition got
LastObserved(c) == observed[c][Len(observed[c])]
DistinctObserved(c) == Range(observed[c])

\* C7, as the specification states it: evaluate() of an AttributeChangeCondition
\* is false until two distinct values have been observed, and from then on it
\* is true exactly when the last two observed values differ.
C7_FalseUntilTwoDistinct ==
  \A c \in CondIds :
    conds[c].kind = "AttributeChange" =>
      IF Cardinality(DistinctObserved(c)) < 2
      THEN evaluate(conds[c]) = "False"
      ELSE evaluate(conds[c]) =
             Truth(~PyEq(observed[c][Len(observed[c]) - 1], LastObserved(c)))

\* C7, amended: evaluate() is false before any matching event; after one
\* matching event it is true iff that event's value is not None; after two or
\* more it is true exactly when the values of the last two matching events
\* differ.
C7_ChangeOfLastTwo ==
  \A c \in CondIds :
    conds[c].kind = "AttributeChange" =>
      evaluate(conds[c]) =
        CASE Len(observed[c]) = 0 -> "False"
          [] Len(observed[c]) = 1 -> Truth(~PyEq(None, LastObserved(c)))
          [] OTHER ->
               Truth(~PyEq(observed[c][Len(observed[c]) - 1], LastObserved(c)))

\* C7 witness: the condition got two matching events with the same value,
\* which is not None, and evaluates to false.
C7_Witness ==
  \E c \in CondIds :
    /\ conds[c].kind = "AttributeChange"
    /\ Len(observed[c]) = 2
    /\ observed[c][1] = observed[c][2] /\ observed[c][1] # None
    /\ evaluate(conds[c]) = "False"

\* float(s) of a str written as digits, with at most one digit after a point
ParseFloat(chars) ==
  LET body == Unsigned(Strip(chars))
      points == {i \in 1..Len(body) : body[i] = "."}
  IN IF points = {}
     THEN IF IsDigitString(body)
          THEN PyFloat(Sign(Strip(chars)) * 10 * DigitsValue(body, 0))
          ELSE Raised("ValueError")
     ELSE LET p == CHOOSE i \in points : TRUE
              whole == SubSeq(body, 1, p - 1)
              frac == SubSeq(body, p + 1, Len(body))
          IN IF /\ Cardinality(points) = 1
                /\ whole = <<>> \/ IsDigitString(whole)
                /\ frac = <<>> \/ IsDigitString(frac)
                /\ whole # <<>> \/ frac # <<>>
             THEN PyFloat(Sign(Strip(chars))
                          * (10 * DigitsValue(whole, 0)
                             + (IF frac = <<>> THEN 0 ELSE DigitValue(frac[1]))))
             ELSE Raised("ValueError")

\* float(value)
FloatOf(value) ==
  CASE value.t = "str" -> ParseFloat(value.s)
    [] value.t = "float" -> value
    [] value.t \in {"int", "bool"} -> PyFloat(10 * value.n)
    [] OTHER -> Raised("TypeError")

\* the cast to the type of an int, float or str static value
CastTo(type, value) ==
  CASE type = "int" -> IntOf(value)
    [] type = "float" -> FloatOf(value)
    [] type = "str" -> StrOf(value)

\* C8: a StaticDeviceAttributeCondition whose static value is an int, a float
\* or a str stores each matching event's value cast to that type (when the
\* cast succeeds); with static value 5 and the incoming str "5", evaluate()
\* is true under "=" and false under ">".
C8_CastsToStaticType ==
  \A c \in CondIds :
    (/\ conds[c].kind = "Static"
     /\ conds[c].static_value.t \in {"int", "float", "str"}
     /\ observed[c] # <<>>)
      => LET value == LastObserved(c)
             cast == CastTo(conds[c].static_value.t, value)
         IN /\ (value # None /\ ~IsRaised(cast)) => conds[c].device_value = cast
            /\ (conds[c].static_value = PyInt(5) /\ value = Str5)
                 => /\ conds[c].operator = "=" => evaluate(conds[c]) = "True"
                    /\ conds[c].operator = ">" => evaluate(conds[c]) = "False"

\* C9: a StaticDeviceAttributeCondition whose static value is a bool stores
\* True for a matching event whose value is a str that, in lower case, is
\* "true", "on", "active" or "open".
C9_BoolStaticCastsTruthyWords ==
  \A c \in CondIds :
    (/\ conds[c].kind = "Static"
     /\ conds[c].static_value.t = "bool"
     /\ observed[c] # <<>>
     /\ LastObserved(c).t = "str"
     /\ Lower(LastObserved(c).s) \in
          {<<"t", "r", "u", "e">>, <<"o", "n">>,
           <<"a", "c", "t", "i", "v", "e">>, <<"o", "p", "e", "n">>})
      => conds[c].device_value = PyBool(TRUE)

\* C9 witness: the condition, compared with True, got "Open" and stored True.
C9_Witness ==
  \E c \in CondIds :
    /\ conds[c].kind = "Static"
    /\ conds[c].static_value = PyBool(TRUE)
    /\ observed[c] # <<>>
    /\ LastObserved(c) = PyStr(<<"O", "p", "e", "n">>)
    /\ conds[c].device_value = PyBool(TRUE)

\* C10: evaluate() of a DynamicDeviceAttributeCondition with an ordering
\* operator is false, and raises nothing, while its left or its right value
\* is None; with an equality or inequality operator it always yields a bool.
C10_DynamicNoneSafe ==
  \A c \in CondIds :
    conds[c].kind = "Dynamic" =>
      /\ (/\ conds[c].operator \in OrderingOperators
          /\ conds[c].left_value = None \/ conds[c].right_value = None)
           => evaluate(conds[c]) = "False"
      /\ conds[c].operator \in {"=", "==", "!=", "<>"}
           => evaluate(conds[c]) \in {"True", "False"}

\* C10 witness: under ">", the left value was observed and the right never.
C10_Witness ==
  \E c \in CondIds :
    /\ conds[c].kind = "Dynamic"
    /\ conds[c].operator = ">"
    /\ conds[c].left_value = PyInt(7)
    /\ conds[c].right_value = None
    /\ Len(observed[c]) = 1
    /\ evaluate(conds[c]) = "False"

\* C11: evaluate() of a StaticDeviceAttributeCondition with an ordering
\* operator is false, and raises nothing, while its device value is None (no
\* matching event yet, or the last matching event carried null).
C11_StaticNoneSafe ==
  \A c \in CondIds :
    (/\ conds[c].kind = "Static"
     /\ conds[c].operator \in OrderingOperators
     /\ conds[c].device_value = None)
      => evaluate(conds[c]) = "False"

\* the operand values a comparison condition holds
Operands(c) ==
  CASE c.kind = "Dynamic" -> {c.left_value, c.right_value}
    [] c.kind = "Static" -> {c.device_value}
    [] OTHER -> {}

\* C12: evaluate() of a DynamicDeviceAttributeCondition or of a
\* StaticDeviceAttributeCondition whose operator is none of =, ==, !=, <>, >,
\* >=, <, <= raises ValueError whatever its operands are, and never yields a
\* bool; the events notified to such a condition raise nothing and leave it
\* holding plain values.
C12_UnknownOperatorRaises ==
  \A c \in CondIds :
    (/\ conds[c].kind \in {"Dynamic", "Static"}
     /\ conds[c].operator \notin Operators)
      => /\ evaluate(conds[c]) = "ValueError"
         /\ \A v \in Operands(conds[c]) : ~IsRaised(v)

\* C12 witness: under "~=" the static condition compared with 5 has stored a
\* 5, and evaluate() raises ValueError.
C12_Witness ==
  \E c \in CondIds :
    /\ conds[c].kind = "Static"
    /\ conds[c].operator = "~="
    /\ conds[c].static_value = PyInt(5)
    /\ conds[c].device_value = PyInt(5)
    /\ Len(observed[c]) = 2
    /\ evaluate(conds[c]) = "ValueError"

\* the event run() takes in this step
Taken == QueueGet(event_q)

\* C13: with StaticDeviceAttributeCondition(42, "switch", "=", True)
\* registered, the turn of run() that dequeues the webhook event (deviceId
\* "42", name "switch", value "on") yields a batch that contains the
\* condition, and the condition's evaluate() is then true.
C13_EndToEnd ==
  [][(/\ IsTurn
      /\ IsRegistered(1)
      /\ Taken.device_id = 42
      /\ Taken.attr_name = "switch"
      /\ Taken.new_value = On)
       => (/\ pc' = "yield"
           /\ 1 \in Range(batch')
           /\ evaluate(conds'[1]) = "True")]_vars

\* C13 witness: run() is suspended on a batch with the condition in it, the
\* event just dequeued is (42, "switch", "on"), and evaluate() is true.
C13_Witness ==
  /\ pc = "yield"
  /\ 1 \in Range(batch)
  /\ dispatched # <<>>
  /\ LET event == dispatched[Len(dispatched)]
     IN /\ event.device_id = 42
        /\ event.attr_name = "switch"
        /\ event.new_value = On
  /\ resp = [result |-> "success", deviceId |-> <<"4", "2">>]
  /\ evaluate(conds[1]) = "True"

\* C14: an on_device_event call on a DynamicDeviceAttributeCondition or a
\* StaticDeviceAttributeCondition whose (device_id, attr_name) is none of the
\* condition's tracked pairs leaves every stored value, and so the result of
\* evaluate(), as they were.
C14_OnlyTrackedPairsChange ==
  [][\A c \in CondIds :
       (/\ conds[c].kind \in {"Dynamic", "Static"}
        /\ observed'[c] = observed[c])
         => (/\ conds'[c] = conds[c]
             /\ evaluate(conds'[c]) = evaluate(conds[c]))]_vars

\* C14 witness: on_device_event was called on a comparison condition, but
\* only with events outside its tracked pairs (no matching value was
\* recorded), and both operands are still the None of construction.
C14_Witness ==
  \E c \in CondIds :
    /\ conds[c].kind = "Dynamic"
    /\ notified # <<>>
    /\ observed[c] = <<>>
    /\ conds[c].left_value = None
    /\ conds[c].right_value = None

\* C15: in a turn of run() for an event of attribute a of device d, a
\* condition that depends on d but tracks no pair (d, a) is not called with
\* the event and is not in the batch the turn yields.
C15_PerAttributeRouting ==
  [][IsTurn =>
       \A c \in CondIds :
         (/\ DependsOn(c, Taken.device_id)
          /\ ~Matches(conds[c], Taken))
           => (/\ c \notin Range(NotifiedIds')
               /\ c \notin Range(batch'))]_vars

\* the url of a command call that carries the arguments args in order
ExpectedUrl(device_id, command_name, args) ==
  IF args = <<>> THEN <<"devices", device_id, command_name>>
  ELSE <<"devices", device_id, command_name,
         Join(<<",">>, [i \in 1..Len(args) |-> StrOf(args[i]).s])>>

\* C16: a call of a facade Command with the positional arguments a1..an,
\* n >= 0, sends exactly one request, for the command's device id and name,
\* whose url ends in the segment str(a1),...,str(an) when n > 0 and has no
\* such segment when n = 0; the call raises only when that request fails.
C16_CommandForwardsArguments ==
  he_result.op = "call" =>
    /\ he_result.outcome \in RequestOutcomes
    /\ he_result.sent =
         <<ExpectedUrl(DeviceIdOf(he_device), he_result.command_name,
                       he_result.args)>>

\* what the hub's device data says of a name, read off the data itself
DeclaredAttribute(name) ==
  name \in Range(he_api.attributes) \ {"dataType", "values"}
ResolvedCommand(name) ==
  \E capability \in Range(he_api.capabilities) \cap DOMAIN Capabilities :
    name \in Capabilities[capability]
DroppedCommand(name) ==
  /\ \E capability \in Range(he_api.capabilities) \ DOMAIN Capabilities :
       name \in HubCommands[capability]
  /\ ~ResolvedCommand(name)

\* C17: device.<name> is decided three ways, with nothing left over: a name
\* of a declared attribute gives an Attribute of the device id and the name,
\* also when a command has that name; otherwise a name of a command of a
\* capability the catalogue knows gives a Command; otherwise AttributeError
\* is raised with the device id in its message.  A command that only a
\* capability dropped as unknown brings gives no Command.
C17_ThreeWayResolution ==
  he_result.op = "getattr" =>
    LET name == he_result.attr_name
        outcome == he_result.outcome
        device_id == IntOf(PyStr(he_api.id)).n
    IN /\ DeclaredAttribute(name) =>
            outcome = [kind |-> "Attribute", device_id |-> device_id,
                       attr_name |-> name]
       /\ (~DeclaredAttribute(name) /\ ResolvedCommand(name)) =>
            outcome = [kind |-> "Command", device_id |-> device_id,
                       command_name |-> name]
       /\ (~DeclaredAttribute(name) /\ ~ResolvedCommand(name)) =>
            outcome = [kind |-> "AttributeError", attr_name |-> name,
                       device |-> he_api.id]
       /\ DroppedCommand(name) => outcome.kind # "Command"

\* C17 witness: the device has the attribute "lock" and the capability Lock
\* with its command "lock"; device.lock gave an Attribute.
C17_Witness ==
  /\ he_result.op = "getattr"
  /\ he_result.attr_name = "lock"
  /\ "lock" \in Range(he_api.attributes)
  /\ "Lock" \in Range(he_api.capabilities)
  /\ he_result.outcome.kind = "Attribute"

\* c is in the bucket of every device id of its get_device_ids(), or in none
WhollyIndexed(c) ==
  LET holding == {d \in Range(get_device_ids(conds[c])) :
                    c \in Range(Bucket(conditions_for_device, d))}
  IN holding = {} \/ holding = Range(get_device_ids(conds[c]))

\* C18: register_condition, unregister_condition and a turn of run() are
\* each one step of the event loop.  So in every interleaving of them with
\* webhook calls, the index that a turn reads has every condition under all
\* of its device ids or under none, and the bucket the turn traverses is the
\* same when the turn ends: the conditions called are that bucket.
C18_IndexAtomicForDispatch ==
  [][/\ \A c \in CondIds : WhollyIndexed(c)
     /\ IsTurn =>
          (/\ conditions_for_device' = conditions_for_device
           /\ NotifiedIds' = Bucket(conditions_for_device, Taken.device_id))]_vars

\* C18 witness: the condition on devices 42 and 7 is in both buckets, a turn
\* for a device 7 event has yielded it, and webhook calls have queued more.
C18_Witness ==
  /\ pc = "yield"
  /\ 2 \in Range(batch)
  /\ 2 \in Range(Bucket(conditions_for_device, 42))
  /\ 2 \in Range(Bucket(conditions_for_device, 7))
  /\ dispatched # <<>>
  /\ dispatched[Len(dispatched)].device_id = 7
  /\ event_q # <<>>

\* where x stands in seq
Position(seq, x) == CHOOSE i \in 1..Len(seq) : seq[i] = x
\* seq has no element twice
NoRepeats(seq) == \A i, j \in 1..Len(seq) : seq[i] = seq[j] => i = j
\* each condition of ids is as on_device_event of the event leaves it
NotifiedWith(ids, event) ==
  \A c \in Range(ids) :
    conds'[c] = on_device_event(conds[c], event.device_id, event.attr_name,
                                event.new_value)

\* C19: the batch yielded for a dequeued event is the conditions that the
\* bucket of the event's device id holds when the event is dequeued, each
\* once, in the order in which they were first registered under that device,
\* and each was called with the event before the batch is yielded.
C19_BatchInFirstRegistrationOrder ==
  [][IsTurn =>
       LET ids == Bucket(conditions_for_device, Taken.device_id)
       IN /\ ids # <<>> => pc' = "yield"
          /\ Range(batch') = Range(ids)
          /\ NoRepeats(batch')
          /\ \A i, j \in 1..Len(batch') :
               i < j => Position(first_registered.order, batch'[i])
                          < Position(first_registered.order, batch'[j])
          /\ NotifiedIds' = batch'
          /\ NotifiedWith(ids, Taken)]_vars

\* C19, amended: the batch is the conditions registered under the event's
\* device id when the event is dequeued, each once, in the order of their
\* first registration since their last unregistration, each called with the
\* event before the batch is yielded.
C19_BatchInEntryOrder ==
  [][IsTurn =>
       LET ids == Bucket(conditions_for_device, Taken.device_id)
       IN /\ ids # <<>> => pc' = "yield"
          /\ batch' = entered[Taken.device_id]
          /\ Range(batch') = Range(ids)
          /\ NoRepeats(batch')
          /\ NotifiedIds' = batch'
          /\ NotifiedWith(ids, Taken)]_vars

\* C19 witness: condition 1 was registered first, unregistered and
\* registered again after condition 2; the batch of a device 42 event has
\* them in the order 2, 1.
C19_Witness ==
  /\ pc = "yield"
  /\ batch = <<2, 1>>
  /\ first_registered.order = <<1, 2>>
  /\ entered[42] = <<2, 1>>
  /\ dispatched # <<>>
  /\ dispatched[Len(dispatched)].device_id = 42

\* C20: on_device_event of a StaticDeviceAttributeCondition raises nothing
\* over a value that cannot be cast: when the cast to the static value's type
\* (or, for a static value that is the class int, the call int(value)) fails,
\* the value is stored as it came; None is stored as None.
C20_CastFailureKeepsRaw ==
  \A c \in CondIds :
    (conds[c].kind = "Static" /\ observed[c] # <<>>) =>
      LET value == LastObserved(c)
          static_value == conds[c].static_value
          stored == conds[c].device_value
      IN /\ ~IsRaised(stored)
         /\ value = None => stored = None
         /\ (/\ value # None
             /\ static_value.t \in {"int", "float", "str"}
             /\ IsRaised(CastTo(static_value.t, value))) => stored = value
         /\ (/\ value # None
             /\ static_value.t = "type"
             /\ IsRaised(IntOf(value))) => stored = value

\* C20 witness: the static value is the class int, the event's value is "on",
\* int("on") raises ValueError, and the condition holds "on".
C20_Witness ==
  \E c \in CondIds :
    /\ conds[c].kind = "Static"
    /\ conds[c].static_value.t = "type"
    /\ observed[c] # <<>>
    /\ LastObserved(c) = On
    /\ IsRaised(IntOf(On))
    /\ conds[c].device_value = On

C22_UnregisteredNotNotified ==
  [][/\ IsTurn =>
          \A c \in CondIds :
            ~IsRegistered(c) =>
              /\ c \notin Range(NotifiedIds')
              /\ c \notin Range(batch')
              /\ conds'[c] = conds[c]
     /\ ~IsTurn => (conds' = conds /\ batch' \in {batch, <<>>})]_vars

\* C22 witness: an event of device 42 was in the queue when
\* unregister_condition(1) returned; the turn that dequeued it came later,
\* did not call condition 1 and left it out of its batch.
C22_Witness ==
  /\ ~IsRegistered(1)
  /\ dispatched # <<>>
  /\ LET event == dispatched[Len(dispatched)]
     IN /\ <<1, event.id>> \in removed_at.pending
        /\ event.device_id = 42
        /\ event.attr_name = "switch"
  /\ pc = "yield"
  /\ batch = <<2>>
  /\ NotifiedIds = <<2>>
  /\ observed[1] = <<>>
  /\ conds[1] = PoolOrder[1]

\* the bucket without the entry of c
Others(index, device_id, c) == Remove(Bucket(index, device_id), c)

\* C23: unregister_condition(c) takes nothing but c's own entries out of the
\* index: under every device id, the entries of the other conditions are the
\* same and in the same order afterwards; and called for a c that is not
\* registered it leaves the whole index as it is.
C23_UnregisterFrame ==
  [][\A c \in CondIds :
       /\ ~IsRegistered(c) =>
            unregister_condition(conditions_for_device, c,
                                 get_device_ids(conds[c]))
              = conditions_for_device
       /\ (IsRegistered(c) /\ registered'[c] = 0) =>
            \A d \in DeviceIds :
              /\ Others(conditions_for_device', d, c)
                   = Others(conditions_for_device, d, c)
              /\ c \notin Range(Bucket(conditions_for_device', d))]_vars

\* C23 witness: condition 2, on devices 42 and 7, was notified and then
\* unregistered; conditions 1 and 3 are still in the buckets they shared
\* with it.
C23_Witness ==
  /\ ~IsRegistered(2)
  /\ observed[2] # <<>>
  /\ IsRegistered(1) /\ IsRegistered(3)
  /\ conditions_for_device = (42 :> <<1>>) @@ (7 :> <<3>>)

\* C24: while the rule engine resumes run() after each batch, every event
\* the webhook handler has queued is dequeued and dispatched at some time;
\* the put appends the event to the queue also while run() is suspended at
\* its yield, and an event leaves the queue only by a turn of run().
C24_EnqueuedEventuallyDispatched ==
  /\ [][/\ enqueued' = enqueued + 1 =>
             (/\ Len(event_q') = Len(event_q) + 1
              /\ event_q'[Len(event_q')].id = enqueued'
              /\ SubSeq(event_q', 1, Len(event_q)) = event_q)
        /\ ~IsTurn => \A i \in 1..Len(event_q) : event_q'[i] = event_q[i]
        /\ IsTurn => (dispatched'[Len(dispatched')] = Head(event_q)
                      /\ event_q' = Tail(event_q))]_vars
  /\ \A k \in 1..MaxCalls : (enqueued >= k) ~> (Len(dispatched) >= k)

\* C24 witness: run() is suspended at the batch of the first event while the
\* second is in the queue, retained.
C24_Witness ==
  /\ pc = "yield"
  /\ emitted = <<1>>
  /\ Len(dispatched) = 1
  /\ enqueued = 2
  /\ Len(event_q) = 1
  /\ event_q[1].id = 2

====
